---- MODULE Spec2Model ----
(***************************************************************************)
(* Model of server/model-midas/app.py: the lazily loaded MiDaS Model       *)
(* Handle (globals model, transform), load_model() and the /predict        *)
(* handler, run by several request threads, and the depth-map pipeline of  *)
(* predict() (resize, normalise, convert to 8 bit, encode).                *)
(***************************************************************************)
EXTENDS Integers, Sequences, FiniteSets, TLC

\* Number of request threads of the handler model.
NReq == 2

\* Largest width or height of an image or of the raw prediction, largest number
\* of pixels of either, and largest raw value (in units of 1e-6).
MaxDim == 3
MaxPixels == 4
MaxVal == 2

\* Line 45: the threshold 1e-6, the unit the raw values are counted in.
Eps == 1

\* Line 49: the factor 255.0.
Scale == 255

Reqs == 1..NReq

\* The global `model` is None (0) or the network fetched by request r (r).
None == 0

\* What a request uploads: no `image` field, bytes PIL cannot decode, an image.
Uploads == {"missing", "undecodable", "image"}

VARIABLES
  model,       \* app.py:11 global model: None or a network
  transform,   \* app.py:12 global transform: "None" or "small_transform"
  evalNets,    \* networks on which .eval() has been called
  deviceNets,  \* networks on which .to(device) has been called
  loads,       \* load counter of the Model Provider: hub.load("MiDaS_small") calls
  pc,          \* per request: the line of app.py it is about to execute
  upload,      \* per request: what the client sent
  exc,         \* per request: the exception raised in its try block ("" when none)
  resp,        \* per request: the HTTP response, [status, body]
  faulted,     \* a collaborator (provider, device, forward pass, encoder) has failed
  img,         \* pipeline: img.size, <<W, H>>
  prediction,  \* pipeline: the tensor `prediction`, [shape, data]
  depth_img,   \* pipeline: the uint8 array depth_img, [shape, data]
  divided,     \* pipeline: the rescale branch (line 46) was executed
  pil,         \* pipeline: size <<width, height>> of the encoded image
  ppc          \* pipeline: the line of predict() about to execute

hvars == <<model, transform, evalNets, deviceNets, loads, pc, upload, exc, resp, faulted>>
pvars == <<img, prediction, depth_img, divided, pil, ppc>>
vars == <<model, transform, evalNets, deviceNets, loads, pc, upload, exc, resp, faulted,
          img, prediction, depth_img, divided, pil, ppc>>

NoResp == [status |-> 0, body |-> "none"]
NoArray == [shape |-> <<>>, data |-> <<>>]

\* The pipeline variables while only the handler is modelled.
PipeIdle ==
  /\ img = <<0, 0>>
  /\ prediction = NoArray
  /\ depth_img = NoArray
  /\ divided = FALSE
  /\ pil = <<0, 0>>
  /\ ppc = "off"

\* Process start: the Model Handle is unloaded, every request is at the top of predict().
Init ==
  /\ model = None
  /\ transform = "None"
  /\ evalNets = {}
  /\ deviceNets = {}
  /\ loads = 0
  /\ pc = [r \in Reqs |-> "L29"]
  /\ upload \in [Reqs -> Uploads]
  /\ exc = [r \in Reqs |-> ""]
  /\ resp = [r \in Reqs |-> NoResp]
  /\ faulted = FALSE
  /\ PipeIdle

\* An exception raised in the try block at request r: control moves to line 55.
Raise(r, kind) ==
  /\ pc' = [pc EXCEPT ![r] = "L55"]
  /\ exc' = [exc EXCEPT ![r] = kind]

Goto(r, line) ==
  /\ pc' = [pc EXCEPT ![r] = line]
  /\ UNCHANGED exc

Return(r, status, body) ==
  /\ pc' = [pc EXCEPT ![r] = "done"]
  /\ resp' = [resp EXCEPT ![r] = [status |-> status, body |-> body]]

\* Lines 29-30: the field check; 400 when the form has no `image` field.
FieldCheck(r) ==
  /\ pc[r] = "L29"
  /\ IF upload[r] = "missing"
       THEN Return(r, 400, "error: no image field") /\ UNCHANGED exc
       ELSE Goto(r, "L31") /\ UNCHANGED resp
  /\ UNCHANGED <<model, transform, evalNets, deviceNets, loads, upload, faulted, pvars>>

\* ImageOpen with the decoding error deferred: load_model() runs before it surfaces.
ImageOpenAfterLoad(r) ==
  /\ pc[r] = "L31"
  /\ Goto(r, "L16")
  /\ UNCHANGED <<model, transform, evalNets, deviceNets, loads, upload, resp, faulted, pvars>>

\* Lines 31-32: Image.open(...).convert('RGB'); raises on bytes that are no image.
ImageOpen(r) ==
  /\ pc[r] = "L31"
  /\ IF upload[r] = "undecodable"
       THEN Raise(r, "cannot identify image file")
       ELSE Goto(r, "L16")
  /\ UNCHANGED <<model, transform, evalNets, deviceNets, loads, upload, resp, faulted, pvars>>

\* LoadModelCheck without the early return: every call loads.
LoadModelCheckNoGuard(r) ==
  /\ pc[r] = "L16"
  /\ Goto(r, "L19")
  /\ UNCHANGED <<model, transform, evalNets, deviceNets, loads, upload, resp, faulted, pvars>>

\* Lines 16-17 of load_model(): return at once when model is not None.
LoadModelCheck(r) ==
  /\ pc[r] = "L16"
  /\ IF model # None THEN Goto(r, "L34") ELSE Goto(r, "L19")
  /\ UNCHANGED <<model, transform, evalNets, deviceNets, loads, upload, resp, faulted, pvars>>

\* Line 19, the call: the Model Provider is asked for the network.
HubLoadCall(r) ==
  /\ pc[r] = "L19"
  /\ loads' = loads + 1
  /\ Goto(r, "L19ret")
  /\ UNCHANGED <<model, transform, evalNets, deviceNets, upload, resp, faulted, pvars>>

\* Line 19, the return: the network is published in the global, or the call raises.
HubLoadReturn(r) ==
  /\ pc[r] = "L19ret"
  /\ \E ok \in BOOLEAN :
       IF ok
         THEN /\ model' = r
              /\ Goto(r, "L20")
              /\ UNCHANGED faulted
         ELSE /\ Raise(r, "hub.load model failed")
              /\ faulted' = TRUE
              /\ UNCHANGED model
  /\ UNCHANGED <<transform, evalNets, deviceNets, loads, upload, resp, pvars>>

\* Line 20: model.eval() on whatever network the global holds now.
ModelEval(r) ==
  /\ pc[r] = "L20"
  /\ evalNets' = evalNets \cup {model}
  /\ Goto(r, "L21")
  /\ UNCHANGED <<model, transform, deviceNets, loads, upload, resp, faulted, pvars>>

\* Lines 21-22: model.to(device); binding the device may fail.
ModelToDevice(r) ==
  /\ pc[r] = "L21"
  /\ \E ok \in BOOLEAN :
       IF ok
         THEN /\ deviceNets' = deviceNets \cup {model}
              /\ Goto(r, "L23")
              /\ UNCHANGED faulted
         ELSE /\ Raise(r, "device unavailable")
              /\ faulted' = TRUE
              /\ UNCHANGED deviceNets
  /\ UNCHANGED <<model, transform, evalNets, loads, upload, resp, pvars>>

\* Lines 23-24: fetch the transforms and publish small_transform, then return.
HubLoadTransforms(r) ==
  /\ pc[r] = "L23"
  /\ \E ok \in BOOLEAN :
       IF ok
         THEN /\ transform' = "small_transform"
              /\ Goto(r, "L34")
              /\ UNCHANGED faulted
         ELSE /\ Raise(r, "hub.load transforms failed")
              /\ faulted' = TRUE
              /\ UNCHANGED transform
  /\ UNCHANGED <<model, evalNets, deviceNets, loads, upload, resp, pvars>>

\* Lines 34-36: transform(img); calling None raises TypeError.
ApplyTransform(r) ==
  /\ pc[r] = "L34"
  /\ IF transform = "None"
       THEN Raise(r, "'NoneType' object is not callable")
       ELSE Goto(r, "L37")
  /\ UNCHANGED <<model, transform, evalNets, deviceNets, loads, upload, resp, faulted, pvars>>

\* Lines 37-38: the forward pass, which may fail (e.g. device memory).
Forward(r) ==
  /\ pc[r] = "L37"
  /\ \E ok \in BOOLEAN :
       IF ok
         THEN Goto(r, "L39") /\ UNCHANGED faulted
         ELSE Raise(r, "forward pass failed") /\ faulted' = TRUE
  /\ UNCHANGED <<model, transform, evalNets, deviceNets, loads, upload, resp, pvars>>

\* Lines 39-54: resize, normalise, encode and send the PNG, or raise on the way.
PostProcess(r) ==
  /\ pc[r] = "L39"
  /\ \E ok \in BOOLEAN :
       IF ok
         THEN Return(r, 200, "image/png") /\ UNCHANGED <<exc, faulted>>
         ELSE Raise(r, "encoding failed") /\ faulted' = TRUE /\ UNCHANGED resp
  /\ UNCHANGED <<model, transform, evalNets, deviceNets, loads, upload, pvars>>

\* Except answering 400 instead of 500.
ExceptAs400(r) ==
  /\ pc[r] = "L55"
  /\ Return(r, 400, "error: " \o exc[r])
  /\ UNCHANGED <<model, transform, evalNets, deviceNets, loads, upload, exc, faulted, pvars>>

\* Lines 55-56: every Exception becomes a 500 with the message as JSON.
Except(r) ==
  /\ pc[r] = "L55"
  /\ Return(r, 500, "error: " \o exc[r])
  /\ UNCHANGED <<model, transform, evalNets, deviceNets, loads, upload, exc, faulted, pvars>>

\* The steps of request r after the field check.
Rest(r) ==
  \/ ImageOpen(r)
  \/ LoadModelCheck(r)
  \/ HubLoadCall(r)
  \/ HubLoadReturn(r)
  \/ ModelEval(r)
  \/ ModelToDevice(r)
  \/ HubLoadTransforms(r)
  \/ ApplyTransform(r)
  \/ Forward(r)
  \/ PostProcess(r)
  \/ Except(r)

\* Requests served by concurrent threads: any request may take its next step.
Next == \E r \in Reqs : FieldCheck(r) \/ Rest(r)

Spec == Init /\ [][Next]_vars

\* Requests served one after the other: a request enters predict() only when no
\* other request is in flight.
NoOtherInFlight(r) == \A q \in Reqs \ {r} : pc[q] \in {"L29", "done"}

FieldCheckSeq(r) == NoOtherInFlight(r) /\ FieldCheck(r)

NextSeq == \E r \in Reqs : FieldCheckSeq(r) \/ Rest(r)

SpecSeq == Init /\ [][NextSeq]_vars

(***************************************************************************)
(* The depth-map pipeline, lines 38-54 of predict(), for one request       *)
(* (request 1) with a decoded image against a loaded Model Handle.         *)
(* Arrays are [shape, data]: data is the row-major flattening.             *)
(***************************************************************************)

RECURSIVE Prod(_)
Prod(shape) == IF shape = <<>> THEN 1 ELSE shape[1] * Prod(Tail(shape))

Sizes == {s \in (1..MaxDim) \X (1..MaxDim) : s[1] * s[2] <= MaxPixels}

Vals == 0..MaxVal

\* tensor.unsqueeze(dim): a dimension of size 1 inserted at position dim (0-based).
Unsqueeze(shape, dim) ==
  SubSeq(shape, 1, dim) \o <<1>> \o SubSeq(shape, dim + 1, Len(shape))

\* tensor.squeeze(): every dimension of size 1 is removed.
Squeeze(shape) == SelectSeq(shape, LAMBDA d : d # 1)

\* img.size[::-1]: PIL's (width, height) reversed to (height, width).
Reversed(size) == <<size[2], size[1]>>

\* interpolate(input, size=...): batch and channel kept, the spatial size replaced.
InterpolateShape(shape, size) == SubSeq(shape, 1, 2) \o size

RECURSIVE ArrayMin(_)
ArrayMin(data) ==
  IF Len(data) = 1 THEN data[1]
  ELSE LET m == ArrayMin(Tail(data)) IN IF data[1] < m THEN data[1] ELSE m

RECURSIVE ArrayMax(_)
ArrayMax(data) ==
  IF Len(data) = 1 THEN data[1]
  ELSE LET m == ArrayMax(Tail(data)) IN IF data[1] > m THEN data[1] ELSE m

\* RescaleBranch comparing against zero instead of the threshold.
RescaleBranchNoEps(minv, maxv) == maxv - minv > 0

\* Line 45: the branch condition maxv - minv > 1e-6.
RescaleBranch(minv, maxv) == maxv - minv > Eps

\* Lines 46 and 48: one value of norm, as the exact fraction num/den.
NormValue(v, minv, maxv) ==
  IF RescaleBranch(minv, maxv)
    THEN [num |-> v - minv, den |-> maxv - minv]
    ELSE [num |-> v * 0, den |-> 1]

\* ToUint8 scaling by 256: the maximum wraps around to 0.
ToUint8Scale256(q) == ((q.num * 256) \div q.den) % 256

\* Line 49: (norm * 255.0).astype('uint8'): truncation, then the low 8 bits.
ToUint8(q) == ((q.num * Scale) \div q.den) % 256

\* Image.fromarray: size is (1, shape[0]) for a 1-d array, (shape[1], shape[0])
\* otherwise; indexing the empty shape of a 0-d array raises IndexError.
FromArrayRaises(shape) == Len(shape) = 0

FromArraySize(shape) ==
  IF Len(shape) = 1 THEN <<1, shape[1]>> ELSE <<shape[2], shape[1]>>

\* Request 1 has decoded an image of some size and is about to run the network.
InitPipe ==
  /\ model = 1
  /\ transform = "small_transform"
  /\ evalNets = {1}
  /\ deviceNets = {1}
  /\ loads = 1
  /\ pc = [r \in Reqs |-> IF r = 1 THEN "L37" ELSE "L29"]
  /\ upload = [r \in Reqs |-> "image"]
  /\ exc = [r \in Reqs |-> ""]
  /\ resp = [r \in Reqs |-> NoResp]
  /\ faulted = FALSE
  /\ img \in Sizes
  /\ prediction = NoArray
  /\ depth_img = NoArray
  /\ divided = FALSE
  /\ pil = <<0, 0>>
  /\ ppc = "L38"

\* Line 38: the network returns a raw prediction (N, h, w) at its own resolution.
RunModel ==
  /\ ppc = "L38"
  /\ \E raw \in Sizes :
       \E data \in [1..(raw[1] * raw[2]) -> Vals] :
         prediction' = [shape |-> <<1, raw[2], raw[1]>>, data |-> data]
  /\ ppc' = "L39"
  /\ pc' = [pc EXCEPT ![1] = "L39"]
  /\ UNCHANGED <<model, transform, evalNets, deviceNets, loads, upload, exc, resp, faulted,
                 img, depth_img, divided, pil>>

\* Lines 39-41: unsqueeze(1), bicubic resize to img.size[::-1], squeeze(). The
\* resized values are any values: bicubic resampling may overshoot the raw range.
Interpolate ==
  /\ ppc = "L39"
  /\ LET shape == Squeeze(InterpolateShape(Unsqueeze(prediction.shape, 1), Reversed(img)))
     IN \E data \in [1..Prod(shape) -> Vals] :
          prediction' = [shape |-> shape, data |-> data]
  /\ ppc' = "L43"
  /\ UNCHANGED <<hvars, img, depth_img, divided, pil>>

\* Lines 43-49: min and max, the rescale or the all-zero branch, the cast to uint8.
Normalize ==
  /\ ppc = "L43"
  /\ LET pred == prediction.data
         minv == ArrayMin(pred)
         maxv == ArrayMax(pred)
     IN /\ depth_img' = [shape |-> prediction.shape,
                         data |-> [i \in 1..Len(pred) |-> ToUint8(NormValue(pred[i], minv, maxv))]]
        /\ divided' = RescaleBranch(minv, maxv)
  /\ ppc' = "L50"
  /\ UNCHANGED <<hvars, img, prediction, pil>>

\* Line 50: Image.fromarray(depth_img).
FromArray ==
  /\ ppc = "L50"
  /\ IF FromArrayRaises(depth_img.shape)
       THEN /\ ppc' = "L55"
            /\ Raise(1, "tuple index out of range")
            /\ UNCHANGED pil
       ELSE /\ ppc' = "L51"
            /\ pil' = FromArraySize(depth_img.shape)
            /\ UNCHANGED <<pc, exc>>
  /\ UNCHANGED <<model, transform, evalNets, deviceNets, loads, upload, resp, faulted,
                 img, prediction, depth_img, divided>>

\* Lines 51-54: the PNG is written to the buffer and sent with status 200.
SendFile ==
  /\ ppc = "L51"
  /\ ppc' = "done"
  /\ Return(1, 200, "image/png")
  /\ UNCHANGED <<model, transform, evalNets, deviceNets, loads, upload, exc, faulted,
                 img, prediction, depth_img, divided, pil>>

\* Lines 55-56 for the pipeline's request.
PipeExcept ==
  /\ ppc = "L55"
  /\ ppc' = "done"
  /\ Return(1, 500, "error: " \o exc[1])
  /\ UNCHANGED <<model, transform, evalNets, deviceNets, loads, upload, exc, faulted,
                 img, prediction, depth_img, divided, pil>>

NextPipe ==
  \/ RunModel
  \/ Interpolate
  \/ Normalize
  \/ FromArray
  \/ SendFile
  \/ PipeExcept

SpecPipe == InitPipe /\ [][NextPipe]_vars

(***************************************************************************)
(* Properties.                                                             *)
(***************************************************************************)

\* Lines 19-24: the body of load_model() after the check.
LoadSection == {"L19", "L19ret", "L20", "L21", "L23"}

\* Lines 34-54: past load_model().
PastLoad == {"L34", "L37", "L39"}

HandleReady ==
  /\ model # None
  /\ model \in evalNets
  /\ model \in deviceNets
  /\ transform # "None"

AllImages == \A r \in Reqs : upload[r] = "image"

\* C1: concurrent requests against a cold handle load the network exactly once:
\* unless a collaborator has failed the provider is asked at most once, and no
\* request is in the load section of load_model() while another one is.
C1_SingleLoad ==
  /\ ~faulted => loads <= 1
  /\ Cardinality({r \in Reqs : pc[r] \in LoadSection}) <= 1

\* C2: a request that has returned from load_model() sees a fully initialised
\* handle: network set, in eval mode, bound to the device, transform set.
C2_FullyInitialised == \A r \in Reqs : pc[r] \in PastLoad => HandleReady

\* C3: a load attempt that fails at any step of load_model() leaves the handle
\* unloaded (requests served one after the other).
C3_FailedLoadLeavesUnloaded ==
  [][\A r \in Reqs :
       (pc[r] \in LoadSection /\ pc'[r] = "L55") => (model' = None /\ transform' = "None")]_vars

\* C4: with a provider that never fails and valid images, every concurrent
\* request that completes has completed with 200.
C4_AllSucceed ==
  (~faulted /\ AllImages) => \A r \in Reqs : pc[r] = "done" => resp[r].status = 200

\* C5: sequential requests with a provider that never fails trigger exactly one
\* load: at most one load ever, and once a request is past load_model() there
\* has been exactly one and the handle is the loaded one.
C5_OneLoadEvent ==
  ~faulted =>
    /\ loads <= 1
    /\ \A r \in Reqs :
         (pc[r] \in PastLoad \/ (pc[r] = "done" /\ resp[r].status = 200)) =>
           (loads = 1 /\ HandleReady)

C5_Witness ==
  /\ ~faulted
  /\ loads = 1
  /\ \A r \in Reqs : pc[r] = "done" /\ resp[r].status = 200

\* C6: a finished request has answered 400 exactly when the image field was
\* missing, 500 exactly when an exception was raised in the handler, and 200 with
\* a PNG otherwise; the two error answers carry an error body.
C6_ResponseClasses ==
  \A r \in Reqs : pc[r] = "done" =>
    /\ resp[r].status \in {200, 400, 500}
    /\ resp[r].status = 400 <=> upload[r] = "missing"
    /\ resp[r].status = 500 <=> exc[r] # ""
    /\ resp[r].status = 200 <=> (upload[r] = "image" /\ exc[r] = "")
    /\ resp[r].status = 200 <=> resp[r].body = "image/png"
    /\ upload[r] = "undecodable" => resp[r].status = 500

C6_Witness ==
  /\ \E r \in Reqs : pc[r] = "done" /\ resp[r].status = 400
  /\ \E r \in Reqs : pc[r] = "done" /\ resp[r].status = 500 /\ upload[r] = "image"

\* C7: the depth map of a successful request has the input image's width and height.
C7_SameDimensions == (ppc = "done" /\ resp[1].status = 200) => pil = img

Normalized == ppc \in {"L50", "L51", "L55", "done"}

Spread == ArrayMax(prediction.data) - ArrayMin(prediction.data)

\* C8: a flat resized prediction (max - min <= 1e-6) gives an all-zero depth map
\* without the division; the rescale branch is taken only when max - min > 1e-6.
C8_FlatIsZero ==
  Normalized =>
    /\ Spread <= Eps =>
         (~divided /\ \A i \in 1..Len(depth_img.data) : depth_img.data[i] = 0)
    /\ divided => Spread > Eps

C8_Witness ==
  /\ ppc = "done"
  /\ resp[1].status = 200
  /\ Spread = Eps
  /\ \A i \in 1..Len(depth_img.data) : depth_img.data[i] = 0

\* C9: normalisation preserves order; the minimum maps to 0 and, when
\* max - min > 1e-6, the maximum maps to 255.
C9_OrderPreserving ==
  Normalized =>
    LET raw == prediction.data
        out == depth_img.data
    IN \A p \in 1..Len(raw) :
         /\ \A q \in 1..Len(raw) : raw[p] <= raw[q] => out[p] <= out[q]
         /\ raw[p] = ArrayMin(raw) => out[p] = 0
         /\ (Spread > Eps /\ raw[p] = ArrayMax(raw)) => out[p] = 255

C9_Witness ==
  /\ ppc = "done"
  /\ Spread > Eps
  /\ \E p \in 1..Len(depth_img.data) : depth_img.data[p] \notin {0, 255}
  /\ \E p \in 1..Len(depth_img.data) : depth_img.data[p] = 255

\* C10: a request rejected before the load step (missing field, undecodable
\* image) never enters load_model() and none of its steps changes the handle.
C10_RejectedNeverLoads ==
  [][\A r \in Reqs :
       (upload[r] # "image" /\ pc'[r] # pc[r]) =>
         /\ pc'[r] \in {"L31", "L55", "done"}
         /\ UNCHANGED <<model, transform, evalNets, deviceNets, loads>>]_vars

C10_Witness ==
  \E r \in Reqs :
    /\ upload[r] = "undecodable"
    /\ pc[r] = "done"
    /\ resp[r].status = 500
    /\ model = None
    /\ loads = 0

====
